---- MODULE Spec2Model ----
(***************************************************************************)
(* A model of DGADetector (dga_detector.py): model construction,           *)
(* checkpointing, the training loop, inference and evaluation.             *)
(*                                                                         *)
(* A domain name is a sequence of one-character strings.  A data frame is  *)
(* a sequence of rows (records), each carrying its index label.  The       *)
(* network, the vectorizer str2ascii, the dataset/dataloader and the       *)
(* Detector base class are collaborators whose code is not in the file;    *)
(* they are modelled by what the detector relies on.                       *)
(***************************************************************************)
EXTENDS Integers, Sequences, FiniteSets, TLC

VARIABLES
    model,   \* Detector.model: None or the active network
    file,    \* the checkpoint file: None or the saved checkpoint record
    saved,   \* history: the active model at the latest successful save
    pc,      \* "idle", the loop the running call is in, or "returned"
    call,    \* the running (or latest) call: its name and arguments
    ret,     \* how the latest call ended: [status, value]
    epoch,   \* train_model: epochs completed
    batch,   \* index of the next chunk of the loader being iterated
    correct, \* evaluate_model: correct predictions so far
    log      \* history: what the running (or latest) call did, in order

vars == <<model, file, saved, pc, call, ret, epoch, batch, correct, log>>

---------------------------------------------------------------------------
(* Bounds of the model. *)
MaxDomainLen == 2    \* longest domain name
MaxDomains == 2      \* most domains in one predict call
MaxBatches == 2      \* most chunks a dataloader yields
MaxEpochs == 2       \* most epochs in one train_model call
MaxWeight == 2       \* distinct trained weight values

(* evaluate_model(self, dataloader, pad_max_len=100) *)
DefaultPadMaxLen == 100

(* Python's None *)
None == [none |-> TRUE]

Min(a, b) == IF a <= b THEN a ELSE b

SetMax(S) == IF S = {} THEN 0 ELSE CHOOSE x \in S : \A y \in S : y <= x

SeqsOf(S, lo, hi) == UNION {[1..n -> S] : n \in lo..hi}

Range(s) == {s[i] : i \in DOMAIN s}

(* a sequence given as a function on 1..n, as the tuple of its elements *)
Rows(s) == SubSeq(s, 1, Len(s))

RowOrders(n) == {p \in [1..n -> 1..n] : \A i, j \in 1..n : p[i] = p[j] => i = j}

---------------------------------------------------------------------------
(* Inputs. *)
Labels == {0, 1}

Chars == {"a"}

Domains == SeqsOf(Chars, 1, MaxDomainLen)

Truncates == 1..MaxDomainLen

Pads == 1..(MaxDomainLen + 1)

(* init_model's arguments: its defaults, and a second architecture *)
InitArgs == {<<128, 100, 2, 3>>, <<128, 100, 3, 2>>}

---------------------------------------------------------------------------
(* The network. *)

(* RNNClassifier(input_size, hidden_size, output_size, n_layers): a fresh  *)
(* network; state_dict 0 stands for freshly initialized weights.           *)
RNNClassifier(input_size, hidden_size, output_size, n_layers) ==
    [input_size |-> input_size, hidden_size |-> hidden_size,
     output_size |-> output_size, n_layers |-> n_layers, state_dict |-> 0]

(* model.load_state_dict(state_dict) *)
LoadStateDict(net, state_dict) == [net EXCEPT !.state_dict = state_dict]

(* The network's output row for one padded input row and its length: one   *)
(* score per class, a function of the weights, the architecture and the    *)
(* first seq_len cells of the row.                                         *)
RECURSIVE RowSum(_, _)
RowSum(row, n) == IF n = 0 THEN 0 ELSE row[n] * n + RowSum(row, n - 1)

ForwardRow(net, row, seq_len) ==
    [k \in 1..net.output_size |->
        ((RowSum(row, Min(seq_len, Len(row))) + net.state_dict * k + net.n_layers + k * k) % 5) - 2]

(* self.model(input, seq_lengths): one output row per input row *)
Forward(net, input, seq_lengths) ==
    Rows([p \in 1..Len(input) |-> ForwardRow(net, input[p], seq_lengths[p])])

(* optimizer.step(): every update changes the weights, and never back to   *)
(* the freshly initialized ones                                            *)
OptimizerStep(state_dict) == (state_dict % MaxWeight) + 1

(* torch.sigmoid, in thousandths, on the scores ForwardRow yields *)
Sigmoid(x) ==
    CASE x = -2 -> 119 [] x = -1 -> 269 [] x = 0 -> 500 [] x = 1 -> 731 [] x = 2 -> 881

(* tensor.max(1)[1]: the column (from 0) of the first maximal score *)
ArgMax(out) ==
    (CHOOSE k \in DOMAIN out :
        /\ \A j \in DOMAIN out : out[j] <= out[k]
        /\ \A j \in DOMAIN out : j < k => out[j] < out[k]) - 1

(* The state machine of the spec: uninitialized, ready, trained. *)
ModelState(m) ==
    IF m = None THEN "uninitialized"
    ELSE IF m.state_dict = 0 THEN "ready" ELSE "trained"

---------------------------------------------------------------------------
(* Strings and vectorization. *)

(* str.code_points() of one character *)
Ord(c) == CASE c = "a" -> 97 [] c = "b" -> 98 [] OTHER -> 63

CodePoints(d) == [j \in 1..Len(d) |-> Ord(d[j])]

(* str.slice_replace(truncate, repl=''): keep the first truncate characters *)
SliceReplace(d, truncate) == SubSeq(d, 1, Min(Len(d), truncate))

PadRight(s, width) == [j \in 1..width |-> IF j <= Len(s) THEN s[j] ELSE 0]

(* width of the character columns str2ascii produces: the longest string *)
SeqWidth(df) == SetMax({Len(df[p].domain) : p \in DOMAIN df})

(* utils.str2ascii(df, 'domain'): the rows of df in the order perm, each    *)
(* with its index label, its length and its character codes zero-filled to *)
(* the common width, and its type if df has that column                    *)
Str2Ascii(df, perm, typed) ==
    Rows([p \in 1..Len(df) |->
        LET row == df[perm[p]]
            codes == PadRight(CodePoints(row.domain), SeqWidth(df))
        IN  IF typed
            THEN [index |-> row.index, domain |-> row.domain, type |-> row.type,
                  len |-> Len(row.domain), codes |-> codes]
            ELSE [index |-> row.index, domain |-> row.domain,
                  len |-> Len(row.domain), codes |-> codes]])

(* _create_variables(df, pad_max_len): the zero-padded tensor and the      *)
(* lengths; the copy input[:n, :w] = seq_cp raises when w > pad_max_len    *)
CreateVariables(df, seq_width, pad_max_len) ==
    IF seq_width > pad_max_len
    THEN [ok |-> FALSE, input |-> <<>>, seq_lengths |-> <<>>]
    ELSE [ok |-> TRUE,
          input |-> [p \in 1..Len(df) |-> PadRight(df[p].codes, pad_max_len)],
          seq_lengths |-> [p \in 1..Len(df) |-> df[p].len]]

(* one entry of the log: what was done, in which method, on which chunk of *)
(* which epoch, and the shape of the data it was done on                   *)
Event(kind, fn, e, b, rows, seq_width, max_len, width) ==
    [kind |-> kind, fn |-> fn, epoch |-> e, batch |-> b, rows |-> rows,
     seq_width |-> seq_width, max_len |-> max_len, width |-> width]

(* the entry _create_variables leaves: the shape of the rows it was given  *)
(* and the width of the tensor it built (0 when the copy raised)           *)
TensorEvent(fn, df, seq_width, pad_max_len, e, b) ==
    Event("create_variables", fn, e, b, Len(df), seq_width,
          SetMax({df[p].len : p \in DOMAIN df}),
          IF seq_width > pad_max_len THEN 0 ELSE pad_max_len)

Ok(value) == [status |-> "ok", value |-> value]

Error(kind) == [status |-> "error", value |-> kind]

---------------------------------------------------------------------------
(* Data frames of predict. *)

(* cudf.DataFrame({"domain": domains}): index labels 0..n-1 *)
DataFrame(domains) ==
    Rows([p \in 1..Len(domains) |-> [index |-> p - 1, domain |-> domains[p]]])

(* SetIndex with the assignment of line 176 left out *)
SetIndex_unassigned(df, other) == df

(* df.index = other.index: labels are replaced by position *)
SetIndex(df, other) ==
    Rows([p \in 1..Len(df) |-> [df[p] EXCEPT !.index = other[p].index]])

(* df["domain"] = other["domain"]: values are aligned on the index label *)
AssignDomain(df, other) ==
    Rows([p \in 1..Len(df) |->
        [df[p] EXCEPT !.domain =
            other[CHOOSE q \in DOMAIN other : other[q].index = df[p].index].domain]])

(* df.sort_index(): the rows in ascending order of their labels *)
SortIndex(df) ==
    Rows([p \in 1..Len(df) |->
        CHOOSE r \in Range(df) :
            Cardinality({x \in Range(df) : x.index < r.index}) = p - 1])

(* predict, lines 171-192, on an active network: the Series it returns     *)
(* (one [index, preds] per row), or the error of _create_variables         *)
PredictResult(net, domains, probability, truncate, pad_max_len, perm) ==
    LET df0 == DataFrame(domains)
        df1 == Rows([p \in 1..Len(df0) |->
                   [df0[p] EXCEPT !.domain = SliceReplace(@, truncate)]])
        temp_df == Str2Ascii(df1, perm, FALSE)
        df2 == SetIndex(df1, temp_df)
        df3 == AssignDomain(df2, temp_df)
        v == CreateVariables(temp_df, SeqWidth(df1), pad_max_len)
        model_result == Forward(net, v.input, v.seq_lengths)
        preds == Rows([p \in 1..Len(model_result) |->
                     IF probability
                     THEN Sigmoid(model_result[p][1])
                     ELSE ArgMax(model_result[p])])
        df4 == Rows([p \in 1..Len(df3) |->
                   [index |-> df3[p].index, domain |-> df3[p].domain, preds |-> preds[p]]])
        df5 == SortIndex(df4)
    IN  IF ~v.ok
        THEN Error("ValueError")
        ELSE Ok([p \in 1..Len(df5) |-> [index |-> df5[p].index, preds |-> df5[p].preds]])

(* what predict logs: the tensor it built and the forward pass, if reached *)
PredictLog(domains, truncate, pad_max_len, perm) ==
    LET df1 == [p \in 1..Len(domains) |->
                   [index |-> p - 1, domain |-> SliceReplace(domains[p], truncate)]]
        temp_df == Str2Ascii(df1, perm, FALSE)
        t == TensorEvent("predict", temp_df, SeqWidth(df1), pad_max_len, 0, 0)
    IN  IF SeqWidth(df1) > pad_max_len
        THEN <<t>>
        ELSE <<t, [t EXCEPT !.kind = "forward"]>>

---------------------------------------------------------------------------
(* Construction and checkpoints. *)

(* InitModelResult without the test of line 53 *)
InitModelResult_unguarded(m, a) == RNNClassifier(a[1], a[2], a[3], a[4])

(* init_model, lines 53-55: construct only when no model exists *)
InitModelResult(m, a) ==
    IF m = None THEN RNNClassifier(a[1], a[2], a[3], a[4]) ELSE m

(* save_checkpoint, lines 80-86: the checkpoint record of a network *)
Checkpoint(m) ==
    [state_dict |-> m.state_dict, input_size |-> m.input_size,
     hidden_size |-> m.hidden_size, n_layers |-> m.n_layers,
     output_size |-> m.output_size]

(* LoadedModel with the arguments in the order the checkpoint's keys are   *)
(* written in                                                              *)
LoadedModel_swapped(checkpoint) ==
    LoadStateDict(
        RNNClassifier(checkpoint.input_size, checkpoint.hidden_size,
                      checkpoint.n_layers, checkpoint.output_size),
        checkpoint.state_dict)

(* LoadedModel without load_state_dict *)
LoadedModel_fresh(checkpoint) ==
    RNNClassifier(checkpoint.input_size, checkpoint.hidden_size,
                  checkpoint.output_size, checkpoint.n_layers)

(* load_checkpoint, lines 64-70: the network rebuilt from a checkpoint *)
LoadedModel(checkpoint) ==
    LoadStateDict(
        RNNClassifier(checkpoint.input_size, checkpoint.hidden_size,
                      checkpoint.output_size, checkpoint.n_layers),
        checkpoint.state_dict)

---------------------------------------------------------------------------
(* Datasets and dataloaders. *)

Records == [domain : Domains, type : Labels]

(* a legitimate domain, and a short and a long generated one *)
SampleRecords ==
    {[domain |-> <<"a">>, type |-> 0], [domain |-> <<"a">>, type |-> 1],
     [domain |-> <<"a", "a">>, type |-> 1]}

RECURSIVE SeqSum(_)
SeqSum(s) == IF s = <<>> THEN 0 ELSE Head(s) + SeqSum(Tail(s))

(* DGADataset(df, truncate): the domains truncated, then vectorized *)
DGADataset(rows, truncate) ==
    LET df == [p \in 1..Len(rows) |->
                  [index |-> p - 1, type |-> rows[p].type,
                   domain |-> SliceReplace(rows[p].domain, truncate)]]
    IN  Str2Ascii(Rows(df), [p \in 1..Len(rows) |-> p], TRUE)

(* DataLoader(dataset, ...): the dataset and the sizes of the chunks       *)
(* get_chunks yields, in order; a chunk may have no rows                   *)
DataLoader(dataset, sizes) == [data |-> dataset, sizes |-> sizes]

(* dataloader.dataset_len *)
DatasetLen(loader) == Len(loader.data)

NumChunks(loader) == Len(loader.sizes)

(* the b-th chunk get_chunks yields *)
Chunk(loader, b) ==
    LET before == SeqSum(SubSeq(loader.sizes, 1, b - 1))
    IN  SubSeq(loader.data, before + 1, before + loader.sizes[b])

(* the dataloaders over at most maxChunks chunks of at most maxRows rows   *)
(* of records, their domains truncated to truncate                         *)
Loaders(maxChunks, maxRows, records, truncate) ==
    UNION {{DataLoader(DGADataset(rows, truncate), sizes) :
                rows \in [1..SeqSum(sizes) -> records]} :
           sizes \in SeqsOf(0..maxRows, 0, maxChunks)}

---------------------------------------------------------------------------
(* Evaluation and training, one chunk at a time. *)

(* BatchCorrect counting the predictions that differ from their labels *)
BatchCorrect_ne(net, df, input, seq_lengths) ==
    LET output == Forward(net, input, seq_lengths)
    IN  Cardinality({p \in 1..Len(df) : ArgMax(output[p]) # df[p].type})

(* evaluate_model, lines 258-259: the predictions of a chunk that equal    *)
(* their labels                                                            *)
BatchCorrect(net, df, input, seq_lengths) ==
    LET output == Forward(net, input, seq_lengths)
    IN  Cardinality({p \in 1..Len(df) : ArgMax(output[p]) = df[p].type})

(* Accuracy with an empty dataset scored 0 instead of dividing *)
Accuracy_guarded(n_correct, dataset_len) ==
    IF dataset_len = 0
    THEN Ok([num |-> 0, den |-> 1])
    ELSE Ok([num |-> n_correct, den |-> dataset_len])

(* evaluate_model, line 260: float(correct) / dataloader.dataset_len, as   *)
(* the fraction num/den; the division raises when dataset_len is 0         *)
Accuracy(n_correct, dataset_len) ==
    IF dataset_len = 0
    THEN Error("ZeroDivisionError")
    ELSE Ok([num |-> n_correct, den |-> dataset_len])

(* _get_loss, lines 265-269: the loss, zero_grad, backward and the         *)
(* optimizer's step on the weights                                         *)
GetLoss(net) == [net EXCEPT !.state_dict = OptimizerStep(@)]

(* what one non-empty train chunk logs after its tensor is built *)
TrainEvents(t) ==
    <<[t EXCEPT !.kind = "forward"], [t EXCEPT !.kind = "loss"],
      [t EXCEPT !.kind = "backward"], [t EXCEPT !.kind = "step"]>>

(* TrainsOn without the test of line 126 *)
TrainsOn_always(df) == TRUE

(* train_model, line 126: whether a chunk is processed *)
TrainsOn(df) == Len(df) > 0

(* what the network does with a tensor of no rows: it raises, or returns   *)
(* no rows                                                                 *)
ForwardOnEmpty == {"raises", "returns"}

Returned(r) ==
    /\ pc' = "returned"
    /\ ret' = r
    /\ epoch' = 0
    /\ batch' = 0
    /\ correct' = 0

Running == [status |-> "running", value |-> None]

InitModel ==
    /\ pc = "idle"
    /\ \E a \in InitArgs :
        /\ call' = [name |-> "init_model", was |-> ModelState(model), args |-> a]
        /\ model' = InitModelResult(model, a)
        /\ log' = <<>>
        /\ Returned(Ok(None))
        /\ UNCHANGED <<file, saved>>

SaveCheckpoint ==
    /\ pc = "idle"
    /\ call' = [name |-> "save_checkpoint", was |-> ModelState(model)]
    /\ log' = <<>>
    /\ IF model = None
       THEN /\ Returned(Error("AttributeError"))
            /\ UNCHANGED <<file, saved>>
       ELSE /\ file' = Checkpoint(model)
            /\ saved' = model
            /\ Returned(Ok(None))
    /\ UNCHANGED model

LoadCheckpoint ==
    /\ pc = "idle"
    /\ call' = [name |-> "load_checkpoint", was |-> ModelState(model)]
    /\ log' = <<>>
    /\ IF file = None
       THEN /\ Returned(Error("FileNotFoundError"))
            /\ UNCHANGED model
       ELSE /\ model' = LoadedModel(file)
            /\ Returned(Ok(None))
    /\ UNCHANGED <<file, saved>>

(* predict(domains, probability, truncate, pad_max_len); perm is the row   *)
(* order str2ascii leaves                                                  *)
Predict(domainSet) ==
    /\ pc = "idle"
    /\ \E domains \in SeqsOf(domainSet, 1, MaxDomains), probability \in BOOLEAN,
          truncate \in Truncates, pad_max_len \in Pads :
        \E perm \in RowOrders(Len(domains)) :
            /\ call' = [name |-> "predict", was |-> ModelState(model),
                        domains |-> domains, probability |-> probability,
                        truncate |-> truncate, pad_max_len |-> pad_max_len,
                        perm |-> perm]
            /\ IF model = None
               THEN /\ Returned(Error("AttributeError"))
                    /\ log' = <<>>
               ELSE /\ Returned(PredictResult(model, domains, probability,
                                              truncate, pad_max_len, perm))
                    /\ log' = PredictLog(domains, truncate, pad_max_len, perm)
            /\ UNCHANGED <<model, file, saved>>

(* evaluate_model(dataloader, pad_max_len), lines 251-252 *)
EvaluateModel(loaders) ==
    /\ pc = "idle"
    /\ \E loader \in loaders, pad_max_len \in Pads :
        /\ call' = [name |-> "evaluate_model", was |-> ModelState(model),
                    loader |-> loader, pad_max_len |-> pad_max_len]
        /\ pc' = "evaluate"
        /\ ret' = Running
        /\ batch' = 1
        /\ correct' = 0
        /\ log' = <<>>
        /\ UNCHANGED <<model, file, saved, epoch>>

(* the dataloader and padding width of the evaluation under way: the       *)
(* caller's, or (line 141) the test dataloader and the default width       *)
EvalLoader == IF pc = "evaluate" THEN call.loader ELSE call.test

EvalPad == IF pc = "evaluate" THEN call.pad_max_len ELSE DefaultPadMaxLen

Raise(kind, events) ==
    /\ Returned(Error(kind))
    /\ log' = log \o events
    /\ UNCHANGED <<model, file, saved, call>>

(* evaluate_model, lines 253-259: one chunk, with or without rows *)
EvalBatch ==
    /\ pc \in {"evaluate", "train_evaluate"}
    /\ batch <= NumChunks(EvalLoader)
    /\ LET df == Chunk(EvalLoader, batch)
           w == SeqWidth(EvalLoader.data)
           t == TensorEvent("evaluate_model", df, w, EvalPad, epoch, batch)
           v == CreateVariables(df, w, EvalPad)
       IN  IF ~v.ok
           THEN Raise("ValueError", <<t>>)
           ELSE IF model = None
           THEN Raise("TypeError", <<t>>)
           ELSE \E outcome \in ForwardOnEmpty :
                    IF Len(df) = 0 /\ outcome = "raises"
                    THEN Raise("RuntimeError", <<t, [t EXCEPT !.kind = "forward"]>>)
                    ELSE /\ correct' = correct + BatchCorrect(model, df, v.input, v.seq_lengths)
                         /\ batch' = batch + 1
                         /\ log' = log \o <<t, [t EXCEPT !.kind = "forward"]>>
                         /\ UNCHANGED <<model, file, saved, pc, call, ret, epoch>>

(* evaluate_model, lines 260-262: the accuracy; back in train_model (line  *)
(* 141) the value is dropped and the next epoch starts                     *)
EvalEnd ==
    /\ pc \in {"evaluate", "train_evaluate"}
    /\ batch > NumChunks(EvalLoader)
    /\ LET accuracy == Accuracy(correct, DatasetLen(EvalLoader))
       IN  IF accuracy.status = "error"
           THEN Raise(accuracy.value, <<>>)
           ELSE IF pc = "evaluate"
           THEN /\ Returned(accuracy)
                /\ UNCHANGED <<model, file, saved, call, log>>
           ELSE /\ pc' = "train"
                /\ epoch' = epoch + 1
                /\ batch' = 1
                /\ correct' = 0
                /\ log' = Append(log, Event("evaluated", "train_model", epoch, 0, 0, 0, 0, 0))
                /\ UNCHANGED <<model, file, saved, call, ret>>

(* train_model(...), lines 118-119: the train and test dataloaders are     *)
(* what _preprocess_data makes of the data, truncated to truncate          *)
TrainModel(trainChunks, testChunks, records, epochSet) ==
    /\ pc = "idle"
    /\ \E truncate \in Truncates, pad_max_len \in Pads, epochs \in epochSet :
        \E train \in Loaders(trainChunks, 1, records, truncate),
           test \in Loaders(testChunks, 1, records, truncate) :
            /\ call' = [name |-> "train_model", was |-> ModelState(model),
                        train |-> train, test |-> test, epochs |-> epochs,
                        truncate |-> truncate, pad_max_len |-> pad_max_len]
            /\ log' = <<>>
            /\ IF model = None
               THEN Returned(Error("AttributeError"))
               ELSE /\ pc' = "train"
                    /\ ret' = Running
                    /\ epoch' = 0
                    /\ batch' = 1
                    /\ correct' = 0
            /\ UNCHANGED <<model, file, saved>>

(* train_model, lines 124-133: one chunk of the train dataloader (the      *)
(* running loss and its logging, lines 132-140, change nothing and are     *)
(* left out)                                                               *)
TrainBatch ==
    /\ pc = "train"
    /\ epoch < call.epochs
    /\ batch <= NumChunks(call.train)
    /\ LET df == Chunk(call.train, batch)
           w == SeqWidth(call.train.data)
           t == TensorEvent("train_model", df, w, call.pad_max_len, epoch, batch)
           v == CreateVariables(df, w, call.pad_max_len)
       IN  IF ~TrainsOn(df)
           THEN /\ batch' = batch + 1
                /\ UNCHANGED <<model, file, saved, pc, call, ret, epoch, correct, log>>
           ELSE IF ~v.ok
           THEN Raise("ValueError", <<t>>)
           ELSE /\ model' = GetLoss(model)
                /\ batch' = batch + 1
                /\ log' = log \o <<t>> \o TrainEvents(t)
                /\ UNCHANGED <<file, saved, pc, call, ret, epoch, correct>>

(* train_model, line 141: evaluate on the test dataloader *)
TrainEvaluate ==
    /\ pc = "train"
    /\ epoch < call.epochs
    /\ batch > NumChunks(call.train)
    /\ pc' = "train_evaluate"
    /\ batch' = 1
    /\ correct' = 0
    /\ log' = Append(log, Event("evaluate_model", "train_model", epoch, 0, 0, 0, 0, 0))
    /\ UNCHANGED <<model, file, saved, call, ret, epoch>>

(* train_model, line 121: the epochs are done *)
TrainEnd ==
    /\ pc = "train"
    /\ epoch = call.epochs
    /\ Returned(Ok(None))
    /\ UNCHANGED <<model, file, saved, call, log>>

---------------------------------------------------------------------------
(* The detector's life: every operation, on small inputs. *)

NoCall == [name |-> "none", was |-> "uninitialized"]

Init ==
    /\ model = None
    /\ file = None
    /\ saved = None
    /\ pc = "idle"
    /\ call = NoCall
    /\ ret = Ok(None)
    /\ epoch = 0
    /\ batch = 0
    /\ correct = 0
    /\ log = <<>>

(* DGADetector(): a new detector, with no model; the checkpoint file stays *)
NewDetector ==
    /\ pc = "idle"
    /\ model # None
    /\ model' = None
    /\ UNCHANGED <<file, saved, pc, call, ret, epoch, batch, correct, log>>

(* the caller has taken the result: the history of the call is dropped *)
Reset ==
    /\ pc = "returned"
    /\ pc' = "idle"
    /\ call' = NoCall
    /\ ret' = Ok(None)
    /\ log' = <<>>
    /\ UNCHANGED <<model, file, saved, epoch, batch, correct>>

Next ==
    \/ NewDetector
    \/ InitModel
    \/ SaveCheckpoint
    \/ LoadCheckpoint
    \/ Predict(Domains)
    \/ EvaluateModel(Loaders(1, 1, Records, MaxDomainLen))
    \/ EvalBatch
    \/ EvalEnd
    \/ TrainModel(1, 1, Records, {1})
    \/ TrainBatch
    \/ TrainEvaluate
    \/ TrainEnd
    \/ Reset

Spec == Init /\ [][Next]_vars

---------------------------------------------------------------------------
(* One call of evaluate_model or train_model, on larger dataloaders, from  *)
(* every state of the model the detector can be in.                        *)

Architectures == {RNNClassifier(a[1], a[2], a[3], a[4]) : a \in InitArgs}

Models == {LoadStateDict(net, w) : net \in Architectures, w \in 0..MaxWeight}

InitCalls ==
    /\ model \in Models \cup {None}
    /\ file = None
    /\ saved = None
    /\ pc = "idle"
    /\ call = NoCall
    /\ ret = Ok(None)
    /\ epoch = 0
    /\ batch = 0
    /\ correct = 0
    /\ log = <<>>

NextCalls ==
    \/ EvaluateModel(Loaders(MaxBatches, 2, SampleRecords, MaxDomainLen))
    \/ EvalBatch
    \/ EvalEnd
    \/ TrainModel(MaxBatches, 1, SampleRecords, 0..MaxEpochs)
    \/ TrainBatch
    \/ TrainEvaluate
    \/ TrainEnd

SpecCalls == InitCalls /\ [][NextCalls]_vars

---------------------------------------------------------------------------
(* One call of predict on domains that differ in their length or in their  *)
(* first character, from every state of the model the detector can be in.  *)

HostNames ==
    {<<c>> \o [j \in 1..(n - 1) |-> "a"] : c \in {"a", "b"}, n \in 1..MaxDomainLen}

NextPredict == Predict(HostNames)

SpecPredict == InitCalls /\ [][NextPredict]_vars

---------------------------------------------------------------------------
(* The claims. *)

JustReturned(name) == pc = "returned" /\ call.name = name

(* what predict returns for one domain on its own *)
PredictOne(domain) ==
    PredictResult(model, <<domain>>, call.probability, call.truncate,
                  call.pad_max_len, <<1>>).value[1].preds

(* C1: whenever predict returns, it returns one result per input domain,   *)
(* labelled 0..n-1 in order, and the result at position i is the model's   *)
(* output for the i-th input domain, whatever order str2ascii left the     *)
(* rows in.                                                                *)
C1_PredictKeepsInputOrder ==
    (JustReturned("predict") /\ ret.status = "ok") =>
        /\ Len(ret.value) = Len(call.domains)
        /\ \A i \in 1..Len(call.domains) :
            /\ ret.value[i].index = i - 1
            /\ ret.value[i].preds = PredictOne(call.domains[i])

(* predict returned for two domains with different outputs, which         *)
(* str2ascii had swapped                                                   *)
C1_Witness ==
    /\ JustReturned("predict")
    /\ ret.status = "ok"
    /\ Len(call.domains) = 2
    /\ call.perm = <<2, 1>>
    /\ ret.value[1].preds # ret.value[2].preds

(* the four architecture parameters and the weights of two networks agree, *)
(* and so do their predictions for every domain, as classes and as         *)
(* probabilities                                                           *)
SameNetwork(m1, m2) ==
    /\ m1.input_size = m2.input_size
    /\ m1.hidden_size = m2.hidden_size
    /\ m1.n_layers = m2.n_layers
    /\ m1.output_size = m2.output_size
    /\ m1.state_dict = m2.state_dict
    /\ \A d \in Domains, probability \in BOOLEAN :
        PredictResult(m1, <<d>>, probability, MaxDomainLen, MaxDomainLen, <<1>>)
            = PredictResult(m2, <<d>>, probability, MaxDomainLen, MaxDomainLen, <<1>>)

(* C2: after load_checkpoint has loaded the record save_checkpoint wrote,  *)
(* the active model has the architecture parameters and the weights of the *)
(* model that was saved, and predicts as it did.                           *)
C2_CheckpointRoundTrip ==
    (JustReturned("load_checkpoint") /\ ret.status = "ok") =>
        /\ saved # None
        /\ model # None
        /\ SameNetwork(model, saved)

(* a new detector loaded the checkpoint of a trained model *)
C2_Witness ==
    /\ JustReturned("load_checkpoint")
    /\ ret.status = "ok"
    /\ call.was = "uninitialized"
    /\ model # None
    /\ model.state_dict # 0

(* the network's output row for the i-th domain of the predict call *)
OutputFor(i) ==
    LET d == SliceReplace(call.domains[i], call.truncate)
    IN  ForwardRow(model, PadRight(CodePoints(d), call.pad_max_len), Len(d))

(* C3: with the probability flag, predict returns for each domain the      *)
(* sigmoid of the network's output for class 1 (DGA); without it, the      *)
(* arg-max class.                                                          *)
C3_ProbabilityOfPositiveClass ==
    (JustReturned("predict") /\ ret.status = "ok") =>
        \A i \in 1..Len(call.domains) :
            ret.value[i].preds =
                IF call.probability
                THEN Sigmoid(OutputFor(i)[2])
                ELSE ArgMax(OutputFor(i))

(* C4: on a detector with no model, predict and evaluate_model end with an *)
(* error, whatever the domains and the dataloader, and the detector still  *)
(* has no model: while the call runs and after it.                         *)
C4_UninitializedFails ==
    (call.name \in {"predict", "evaluate_model"} /\ call.was = "uninitialized") =>
        /\ model = None
        /\ pc = "returned" => ret.status = "error"

(* evaluate_model ended on a detector with no model and a dataloader that  *)
(* yields no chunks                                                        *)
C4_Witness ==
    /\ JustReturned("evaluate_model")
    /\ call.was = "uninitialized"
    /\ NumChunks(call.loader) = 0
    /\ ret.status = "error"

(* C5: a step of init_model on a detector that has a model leaves the      *)
(* model, its architecture parameters and its weights as they were,        *)
(* whatever its arguments.                                                 *)
C5_InitModelOnce ==
    [][(pc = "idle" /\ model # None /\ call'.name = "init_model") => model' = model]_vars

(* init_model returned on a trained model with arguments that are not the  *)
(* model's architecture                                                    *)
C5_Witness ==
    /\ JustReturned("init_model")
    /\ call.was = "trained"
    /\ model.state_dict # 0
    /\ call.args[3] # model.output_size

(* C6: load_checkpoint of an existing checkpoint succeeds whatever the     *)
(* state of the model, and leaves as the active model the network with the *)
(* checkpoint's architecture parameters and weights; predict and           *)
(* evaluate_model then have a model to use.                                *)
C6_LoadInstallsCheckpoint ==
    JustReturned("load_checkpoint") =>
        /\ ret.status = "ok" <=> file # None
        /\ ret.status = "ok" =>
            /\ model # None
            /\ model.input_size = file.input_size
            /\ model.hidden_size = file.hidden_size
            /\ model.n_layers = file.n_layers
            /\ model.output_size = file.output_size
            /\ model.state_dict = file.state_dict
            /\ ModelState(model) \in {"ready", "trained"}

(* load_checkpoint replaced an untrained model of another architecture by  *)
(* a trained one                                                           *)
C6_Witness ==
    /\ JustReturned("load_checkpoint")
    /\ ret.status = "ok"
    /\ call.was = "ready"
    /\ model.state_dict # 0

(* C7: in train_model and in evaluate_model, no tensor is built and no     *)
(* forward pass is run for a chunk of zero rows, and no error is raised on *)
(* it.                                                                     *)
C7_EmptyBatchesSkipped ==
    call.was # "uninitialized" =>
        /\ \A i \in 1..Len(log) :
            log[i].kind \in {"create_variables", "forward"} /\ log[i].fn # "predict"
                => log[i].rows > 0
        /\ (pc = "returned" /\ ret.status = "error") => ret.value # "RuntimeError"

(* the examples of the evaluated dataset whose arg-max prediction is their *)
(* label                                                                   *)
CorrectExamples ==
    {p \in 1..Len(call.loader.data) :
        LET row == call.loader.data[p]
        IN  ArgMax(ForwardRow(model, PadRight(row.codes, call.pad_max_len), row.len))
                = row.type}

(* C8: when evaluate_model returns, the accuracy is the number of examples *)
(* of the dataset predicted as labelled over the number of examples, and   *)
(* lies in [0,1].                                                          *)
C8_AccuracyIsCorrectOverTotal ==
    (JustReturned("evaluate_model") /\ ret.status = "ok") =>
        /\ ret.value.num = Cardinality(CorrectExamples)
        /\ ret.value.den = DatasetLen(call.loader)
        /\ 0 <= ret.value.num
        /\ ret.value.num <= ret.value.den
        /\ ret.value.den > 0

(* evaluate_model returned over two chunks, one of two rows, some examples *)
(* right and some wrong                                                    *)
C8_Witness ==
    /\ JustReturned("evaluate_model")
    /\ ret.status = "ok"
    /\ NumChunks(call.loader) = 2
    /\ 2 \in Range(call.loader.sizes)
    /\ 0 < ret.value.num
    /\ ret.value.num < ret.value.den

(* C9: in every call, the rows handed to _create_variables are no wider    *)
(* than pad_max_len, no sequence length exceeds pad_max_len, and the       *)
(* tensor is built with exactly pad_max_len columns.                       *)
C9_PaddedToPadMaxLen ==
    call.was # "uninitialized" =>
        \A i \in 1..Len(log) :
            log[i].kind = "create_variables" =>
                /\ log[i].seq_width <= call.pad_max_len
                /\ log[i].max_len <= call.pad_max_len
                /\ log[i].width = call.pad_max_len

(* what train_model does on the b-th train chunk of epoch e *)
ChunkSchedule(e, b) ==
    IF Len(Chunk(call.train, b)) > 0
    THEN <<<<"forward", e, b>>, <<"loss", e, b>>, <<"backward", e, b>>, <<"step", e, b>>>>
    ELSE <<>>

RECURSIVE ChunksSchedule(_, _)
ChunksSchedule(e, b) ==
    IF b = 0 THEN <<>> ELSE ChunksSchedule(e, b - 1) \o ChunkSchedule(e, b)

(* what train_model does in its first n epochs *)
RECURSIVE EpochsSchedule(_)
EpochsSchedule(n) ==
    IF n = 0
    THEN <<>>
    ELSE EpochsSchedule(n - 1)
            \o ChunksSchedule(n - 1, NumChunks(call.train))
            \o <<<<"evaluate_model", n - 1, 0>>, <<"evaluated", n - 1, 0>>>>

IsTrainStep(e) == e.fn = "train_model" /\ e.kind # "create_variables"

(* what train_model did: the passes, updates and evaluations of the log *)
TrainSteps ==
    LET steps == SelectSeq(log, IsTrainStep)
    IN  [i \in 1..Len(steps) |-> <<steps[i].kind, steps[i].epoch, steps[i].batch>>]

(* C10: when train_model returns, it has run exactly `epochs` epochs, each *)
(* one forward pass, loss, backpropagation and update per non-empty train  *)
(* chunk in chunk order, then one evaluation on the test dataloader,       *)
(* completed before the next epoch starts.                                 *)
C10_TrainSchedule ==
    (JustReturned("train_model") /\ ret.status = "ok") =>
        TrainSteps = EpochsSchedule(call.epochs)

(* train_model returned after two epochs over an empty and a non-empty     *)
(* train chunk                                                             *)
C10_Witness ==
    /\ JustReturned("train_model")
    /\ ret.status = "ok"
    /\ call.epochs = 2
    /\ call.train.sizes = <<0, 1>>
    /\ model.state_dict # 0

====
